---- MODULE Spec2Model ----
(***************************************************************************)
(* Model of the Chess Board Classification API (backend/main.py and its    *)
(* revision docs/backend/main.py): the request pipeline of                 *)
(* POST /boardClassification (content-type check, base64 decoder, PNG      *)
(* validator, image transformer, response) and GET /health.                *)
(*                                                                         *)
(* A Python str is a tuple of characters, each a one-character string; a   *)
(* bytes object is a tuple of integers 0..255.                             *)
(***************************************************************************)
EXTENDS Integers, Sequences, FiniteSets, TLC

VARIABLES
    revision,   \* which of the two source files is deployed
    environ,    \* os.environ of the server process
    http,       \* per connection: the HTTP request received, or NoHttp
    req,        \* per connection: the request being served, or NoRequest
    pc,         \* per connection: the handler's position
    png_bytes,  \* per connection: local of board_classification
    img,        \* per connection: local of board_classification
    out,        \* per connection: local of _process_image
    out_png,    \* per connection: local of board_classification
    resp,       \* per connection: the response sent, or NoResponse
    stages,     \* per connection: the pipeline stages entered so far
    payload,    \* the decoder's input under test
    bare,       \* _decode_base64(payload), once computed
    prefixed    \* _decode_base64("data:image/png;base64," + payload), once computed

vars == <<revision, environ, http, req, pc, png_bytes, img, out, out_png, resp, stages,
          payload, bare, prefixed>>

server_vars == <<revision, environ, http, req, pc, png_bytes, img, out, out_png, resp, stages>>
decoder_vars == <<payload, bare, prefixed>>

----------------------------------------------------------------------------
(* Bounds of the model.                                                    *)

\* Longest body of a decoder input that is enumerated exhaustively.
MaxBody == 4
\* Number of connections served concurrently.
MaxRequests == 2

----------------------------------------------------------------------------
(* Python str methods used by the source.                                  *)

UpperLetters ==
    <<"A","B","C","D","E","F","G","H","I","J","K","L","M",
      "N","O","P","Q","R","S","T","U","V","W","X","Y","Z">>
LowerLetters ==
    <<"a","b","c","d","e","f","g","h","i","j","k","l","m",
      "n","o","p","q","r","s","t","u","v","w","x","y","z">>
Digits == <<"0","1","2","3","4","5","6","7","8","9">>

\* A character is a string of length one; one that a string of the model
\* cannot hold is written as its code point, "U+000B".

\* The ASCII characters str.strip() removes: space, \t, \n, \r, \f, \x0b
\* and the separators \x1c to \x1f.
AsciiSpace ==
    {" ", "\t", "\n", "\r", "\f", "U+000B", "U+001C", "U+001D", "U+001E", "U+001F"}

\* The characters outside ASCII that str.strip() removes.
UnicodeSpace ==
    {"U+0085", "U+00A0", "U+1680", "U+2000", "U+2001", "U+2002", "U+2003",
     "U+2004", "U+2005", "U+2006", "U+2007", "U+2008", "U+2009", "U+200A",
     "U+2028", "U+2029", "U+202F", "U+205F", "U+3000"}

\* The characters outside ASCII: a letter (already lower case) and the
\* white space.
NonAscii == {"U+00E9"} \cup UnicodeSpace

\* str.isspace: what str.strip() with no argument removes.
Whitespace == AsciiSpace \cup UnicodeSpace

Range(f) == {f[i] : i \in DOMAIN f}

\* str.lower on one character.
LowerChar(c) ==
    IF c \in Range(UpperLetters)
    THEN LowerLetters[CHOOSE i \in 1..26 : UpperLetters[i] = c]
    ELSE c

\* str.lower
lower(s) == [i \in 1..Len(s) |-> LowerChar(s[i])]

\* str.lstrip / str.rstrip / str.strip with no argument
RECURSIVE lstrip(_)
lstrip(s) ==
    IF s # <<>> /\ Head(s) \in Whitespace THEN lstrip(Tail(s)) ELSE s

RECURSIVE rstrip(_)
rstrip(s) ==
    IF s # <<>> /\ s[Len(s)] \in Whitespace
    THEN rstrip(SubSeq(s, 1, Len(s) - 1))
    ELSE s

strip(s) == rstrip(lstrip(s))

\* str.startswith
startswith(s, p) == Len(s) >= Len(p) /\ SubSeq(s, 1, Len(p)) = p

\* c in s
contains(s, c) == \E i \in 1..Len(s) : s[i] = c

\* As SplitAfterFirst, had the source cut at the last c: s.rsplit(c, 1)[1].
SplitAfterLast(s, c) ==
    LET k == CHOOSE i \in 1..Len(s) : s[i] = c /\ \A j \in (i + 1)..Len(s) : s[j] # c
    IN  SubSeq(s, k + 1, Len(s))

\* s.split(c, 1)[1], for s that contains c
SplitAfterFirst(s, c) ==
    LET k == CHOOSE i \in 1..Len(s) : s[i] = c /\ \A j \in 1..(i - 1) : s[j] # c
    IN  SubSeq(s, k + 1, Len(s))

----------------------------------------------------------------------------
(* base64.b64decode(raw, validate=True): binascii.a2b_base64 in strict     *)
(* mode, as CPython 3.11 computes it.                                      *)

B64Alphabet ==
    UpperLetters \o LowerLetters \o Digits \o <<"+", "/">>

BASE64_PAD == "="

\* table_a2b_base64: the 6-bit value of a character, 64 for any other one.
B64Value(c) ==
    IF c \in Range(B64Alphabet)
    THEN (CHOOSE i \in 1..64 : B64Alphabet[i] = c) - 1
    ELSE 64

\* The outcome of a call: a returned value, or a raised exception. An
\* exception nobody catches leaves the server as status 500.
Returned(v) == [exc |-> "", value |-> v]
Raise(type, msg) == [exc |-> type, status_code |-> 500, detail |-> msg]
HTTPException(code, msg) == [exc |-> "HTTPException", status_code |-> code, detail |-> msg]
raised(r) == r.exc # ""

BinasciiError(msg) == Raise("binascii.Error", msg)

MsgLeadingPad == "Leading padding not allowed"
MsgExcess == "Excess data after padding"
MsgOnly == "Only base64 data is allowed"
MsgDiscontinuous == "Discontinuous padding not allowed"
MsgIncorrect == "Incorrect padding"
MsgNonAscii == "string argument should contain only ASCII characters"
MsgOneMore(n) ==
    "Invalid base64-encoded string: number of data characters (" \o ToString(n)
        \o ") cannot be 1 more than a multiple of 4"

\* The decoding loop from character i on. quad_pos, leftchar, pads and
\* padding_started are the loop's variables, bin the bytes written so far.
RECURSIVE a2b_loop(_, _, _, _, _, _, _)
a2b_loop(s, i, quad_pos, leftchar, pads, padding_started, bin) ==
    IF i > Len(s)
    THEN IF quad_pos = 0 THEN Returned(bin)
         ELSE IF quad_pos = 1
              THEN BinasciiError(MsgOneMore((Len(bin) \div 3) * 4 + 1))
              ELSE BinasciiError(MsgIncorrect)
    ELSE IF s[i] = BASE64_PAD
    THEN IF quad_pos >= 2 /\ quad_pos + pads + 1 >= 4
         THEN IF i < Len(s) THEN BinasciiError(MsgExcess) ELSE Returned(bin)
         ELSE a2b_loop(s, i + 1, quad_pos, leftchar,
                       IF quad_pos >= 2 THEN pads + 1 ELSE pads, TRUE, bin)
    ELSE IF B64Value(s[i]) >= 64 THEN BinasciiError(MsgOnly)
    ELSE IF padding_started THEN BinasciiError(MsgDiscontinuous)
    ELSE LET this_ch == B64Value(s[i])
         IN  CASE quad_pos = 0 ->
                    a2b_loop(s, i + 1, 1, this_ch, 0, FALSE, bin)
               [] quad_pos = 1 ->
                    a2b_loop(s, i + 1, 2, this_ch % 16, 0, FALSE,
                             Append(bin, (leftchar * 4 + this_ch \div 16) % 256))
               [] quad_pos = 2 ->
                    a2b_loop(s, i + 1, 3, this_ch % 4, 0, FALSE,
                             Append(bin, (leftchar * 16 + this_ch \div 4) % 256))
               [] quad_pos = 3 ->
                    a2b_loop(s, i + 1, 0, 0, 0, FALSE,
                             Append(bin, (leftchar * 64 + this_ch) % 256))

a2b_base64_strict(s) ==
    IF s # <<>> /\ s[1] = BASE64_PAD
    THEN BinasciiError(MsgLeadingPad)
    ELSE a2b_loop(s, 1, 0, 0, 0, FALSE, <<>>)

\* base64.b64decode(s, validate=True) of a str: the str is encoded as ASCII
\* first (ValueError otherwise), then decoded strictly.
b64decode(s) ==
    IF \E i \in 1..Len(s) : s[i] \in NonAscii
    THEN Raise("ValueError", MsgNonAscii)
    ELSE a2b_base64_strict(s)

----------------------------------------------------------------------------
(* The Request Decoder.                                                    *)

DataScheme == <<"d","a","t","a",":">>

\* The text that remains to be decoded: trimmed, and without its data: header.
DecoderRaw(s) ==
    LET raw == strip(s)
    IN  IF startswith(lower(raw), DataScheme) /\ contains(raw, ",")
        THEN SplitAfterFirst(raw, ",")
        ELSE raw

_decode_base64(s) ==
    LET r == b64decode(DecoderRaw(s))
    IN  IF raised(r)
        THEN HTTPException(400, "Invalid base64: " \o r.detail)
        ELSE r

----------------------------------------------------------------------------
(* The image library (PIL), which the source calls and does not contain.    *)
(* A PNG file of the model is the 8-byte signature followed by four bytes,  *)
(* <<width, height, colour type, sample>>: an image of one uniform colour.  *)
(* Anything else after the signature does not parse.                        *)

PNG_SIGNATURE == <<137, 80, 78, 71, 13, 10, 26, 10>>   \* b"\x89PNG\r\n\x1a\n"

\* PNG colour types: greyscale, RGB, palette, greyscale + alpha, RGBA.
ColourTypes == {0, 2, 3, 4, 6}

NoImage == [size |-> <<0, 0>>, mode |-> "", pixel |-> <<>>]

\* Image.open(BytesIO(png_bytes)); img.load(); img.convert("RGBA")
PilOpenLoadConvert(bytes) ==
    LET body == SubSeq(bytes, Len(PNG_SIGNATURE) + 1, Len(bytes))
    IN  IF Len(body) < 4
        THEN Raise("OSError", "image file is truncated")
        ELSE IF Len(body) > 4 \/ body[1] = 0 \/ body[2] = 0
        THEN Raise("PIL.UnidentifiedImageError", "cannot identify image file")
        ELSE IF body[3] \notin ColourTypes
        THEN Raise("SyntaxError", "unknown PNG mode")
        ELSE Returned([size |-> <<body[1], body[2]>>,
                       mode |-> "RGBA",
                       pixel |-> <<body[4], body[4], body[4],
                                   IF body[3] \in {4, 6} THEN body[4] ELSE 255>>])

\* ImageFont.load_default() and draw.textbbox((0, 0), text, font). The
\* metrics belong to the library's font; a fixed-pitch font with glyphs 6
\* wide and 11 high stands for it here. No property below rests on them.
textbbox(text) == <<0, 0, 6 * Len(text), IF Len(text) = 0 THEN 0 ELSE 11>>

NoOutput == [size |-> <<0, 0>>, ops |-> <<>>]
NoFile == [format |-> "", signature |-> <<>>, image |-> NoOutput]

\* out.save(buf, format="PNG"); buf.getvalue()
PilSavePng(o) ==
    IF o.size[1] = 0 \/ o.size[2] = 0
    THEN Raise("SystemError", "tile cannot extend outside image")
    ELSE Returned([format |-> "PNG", signature |-> PNG_SIGNATURE, image |-> o])

----------------------------------------------------------------------------
(* The Image Validator.                                                    *)

\* As BadSignature, had the source compared only b"\x89PNG".
BadSignatureShort(b) ==
    Len(b) < 8 \/ SubSeq(b, 1, 4) # SubSeq(PNG_SIGNATURE, 1, 4)

BadSignature(b) ==
    Len(b) < 8 \/ SubSeq(b, 1, 8) # PNG_SIGNATURE

\* As ParseFailure, had the source put the exception into the detail.
ParseFailureLeak(e) == HTTPException(400, "Could not parse PNG image: " \o e.detail)

\* except Exception: whatever e the image library raised
ParseFailure(e) == HTTPException(400, "Could not parse PNG image.")

_ensure_png(b) ==
    IF BadSignature(b)
    THEN HTTPException(400, "Uploaded bytes are not a PNG file.")
    ELSE LET r == PilOpenLoadConvert(b)
         IN  IF raised(r) THEN ParseFailure(r) ELSE r

----------------------------------------------------------------------------
(* The Image Transformer and the Response Encoder.                         *)

\* The drawing of _process_image for a border and a text: the canvas, the
\* paste of the input through its own alpha, the rectangle, the text.
\* As OutSize, had the source added the border once.
OutSizeOneSide(w, h, border) == <<w + border, h + border>>

OutSize(w, h, border) == <<w + border * 2, h + border * 2>>

Compose(image, border, text) ==
    LET w == image.size[1]
        h == image.size[2]
        W == OutSize(w, h, border)[1]
        H == OutSize(w, h, border)[2]
    IN  IF W < 0 \/ H < 0
        THEN Raise("ValueError", "Width and height must be >= 0")
        ELSE LET bbox == textbbox(text)
                 tw == bbox[3] - bbox[1]
                 th == bbox[4] - bbox[2]
                 pad == 10
                 x == W - tw - pad
                 y == H - th - pad
             IN  Returned(
                   [size |-> <<W, H>>,
                    ops |-> << <<"new", <<"fill", <<220, 0, 0, 255>> >> >>,
                               <<"paste", <<"at", <<border, border>> >>,
                                          <<"size", image.size>>,
                                          <<"pixel", image.pixel>> >>,
                               <<"rectangle", <<"box", <<x - 6, y - 4, x + tw + 6, y + th + 4>> >>,
                                              <<"fill", <<0, 0, 0, 140>> >> >>,
                               <<"text", <<"at", <<x, y>> >>, <<"text", text>>,
                                         <<"fill", <<255, 255, 255, 255>> >> >> >>])

\* Compose, then save as PNG.
ComposeAndSave(image, border, text) ==
    LET o == Compose(image, border, text)
    IN  IF raised(o) THEN o ELSE PilSavePng(o.value)

\* backend/main.py
_process_image(image) == ComposeAndSave(image, 16, "boardClassification")

\* os.getenv(name, default); an environment variable is [set, value].
getenv(env, name, default) ==
    IF env[name].set THEN env[name].value ELSE default

DigitValue(c) == (CHOOSE i \in 1..10 : Digits[i] = c) - 1

RECURSIVE DigitsValue(_, _)
DigitsValue(s, acc) ==
    IF s = <<>> THEN acc
    ELSE IF Head(s) = "_" THEN DigitsValue(Tail(s), acc)
    ELSE DigitsValue(Tail(s), acc * 10 + DigitValue(Head(s)))

\* The white space int() skips at both ends of a str: the Unicode spaces,
\* which it turns into " " first, and the ASCII space, \t, \n, \r, \f and
\* \x0b; not the separators \x1c to \x1f, which str.strip() removes.
IntSpace == UnicodeSpace \cup {" ", "\t", "\n", "\r", "\f", "U+000B"}

RECURSIVE SkipLeading(_, _)
SkipLeading(s, chars) ==
    IF s # <<>> /\ Head(s) \in chars THEN SkipLeading(Tail(s), chars) ELSE s

RECURSIVE SkipTrailing(_, _)
SkipTrailing(s, chars) ==
    IF s # <<>> /\ s[Len(s)] \in chars
    THEN SkipTrailing(SubSeq(s, 1, Len(s) - 1), chars)
    ELSE s

\* int(s) of a str: its white space skipped at both ends, an optional sign,
\* decimal digits with single underscores between them.
int(s) ==
    LET t == SkipTrailing(SkipLeading(s, IntSpace), IntSpace)
        signed == t # <<>> /\ t[1] \in {"+", "-"}
        d == IF signed THEN Tail(t) ELSE t
        wellformed ==
            /\ d # <<>>
            /\ \A i \in 1..Len(d) : d[i] \in Range(Digits) \cup {"_"}
            /\ d[1] # "_" /\ d[Len(d)] # "_"
            /\ \A i \in 1..(Len(d) - 1) : ~(d[i] = "_" /\ d[i + 1] = "_")
    IN  IF ~wellformed
        THEN Raise("ValueError", "invalid literal for int() with base 10")
        ELSE Returned(IF signed /\ t[1] = "-" THEN 0 - DigitsValue(d, 0)
                      ELSE DigitsValue(d, 0))

\* docs/backend/main.py
process_image(image, env) ==
    LET border == int(getenv(env, "BORDER_SIZE", <<"1", "6">>))
    IN  IF raised(border) THEN border
        ELSE ComposeAndSave(image, border.value,
                            getenv(env, "WATERMARK_TEXT", "boardClassification"))

----------------------------------------------------------------------------
(* The endpoints, each as one function of the request and the process.     *)

IMAGE_PNG == <<"i","m","a","g","e","/","p","n","g">>

\* A value that is there, and one that is not (None, an unset variable).
Given(v) == [set |-> TRUE, value |-> v]
Omitted == [set |-> FALSE, value |-> <<>>]

\* The members of a JSON body: a string, null, a number, or no such key.
Str(v) == [type |-> "string", value |-> v]
Null == [type |-> "null", value |-> <<>>]
Number == [type |-> "number", value |-> <<>>]
Missing == [type |-> "missing", value |-> <<>>]

\* A JSON object with the three keys of the request, and a JSON array.
Object(filename, contentType, imageBase64) ==
    [json |-> "object", filename |-> filename, contentType |-> contentType,
     imageBase64 |-> imageBase64]
Array == [json |-> "array", filename |-> Missing, contentType |-> Missing,
          imageBase64 |-> Missing]
NoBody == [json |-> "none", filename |-> Missing, contentType |-> Missing,
           imageBase64 |-> Missing]

ValidationError(type, loc, msg) == [type |-> type, loc |-> loc, msg |-> msg]

\* A str field given something that is not a string.
StringType(field) ==
    ValidationError("string_type", <<"body", field>>, "Input should be a valid string")

\* The request class applied to a JSON body: the errors, in the order of its
\* fields. filename: Optional[str] = None takes a string, null or nothing;
\* contentType: str = "image/png" a string or nothing; imageBase64: str
\* must be there and a string.
ValidationErrors(body) ==
    IF body.json # "object"
    THEN << ValidationError("model_attributes_type", <<"body">>,
                "Input should be a valid dictionary or object to extract fields from") >>
    ELSE (IF body.filename.type \in {"string", "null", "missing"}
          THEN <<>> ELSE <<StringType("filename")>>)
         \o (IF body.contentType.type \in {"string", "missing"}
             THEN <<>> ELSE <<StringType("contentType")>>)
         \o (IF body.imageBase64.type = "missing"
             THEN <<ValidationError("missing", <<"body", "imageBase64">>, "Field required")>>
             ELSE IF body.imageBase64.type = "string"
             THEN <<>> ELSE <<StringType("imageBase64")>>)

\* BoardClassificationRequest of a body without validation errors: filename
\* defaults to None and contentType to "image/png".
BoardClassificationRequest(body) ==
    [method |-> "POST", path |-> "/boardClassification",
     filename |-> IF body.filename.type = "string"
                  THEN Given(body.filename.value) ELSE Omitted,
     contentType |-> IF body.contentType.type = "string"
                     THEN body.contentType.value ELSE IMAGE_PNG,
     imageBase64 |-> body.imageBase64.value]

HealthRequest ==
    [method |-> "GET", path |-> "/health", filename |-> Omitted,
     contentType |-> <<>>, imageBase64 |-> <<>>]

NoRequest == [method |-> "", path |-> "", filename |-> Omitted,
              contentType |-> <<>>, imageBase64 |-> <<>>]

\* The HTTP request as it arrives, before the route's parameter is built.
PostBoardClassification(body) ==
    [method |-> "POST", path |-> "/boardClassification", body |-> body]
GetHealth == [method |-> "GET", path |-> "/health", body |-> NoBody]
NoHttp == [method |-> "", path |-> "", body |-> NoBody]

NoResponse == [status_code |-> 0, media_type |-> "", cache_control |-> "",
               body |-> [kind |-> "none"]]

\* What the framework sends for an exception that leaves a handler: the
\* HTTPException's status and {"detail": ...}, or a plain 500.
ExceptionResponse(e) ==
    IF e.exc = "HTTPException"
    THEN [status_code |-> e.status_code, media_type |-> "application/json",
          cache_control |-> "", body |-> [kind |-> "detail", detail |-> e.detail]]
    ELSE [status_code |-> 500, media_type |-> "text/plain",
          cache_control |-> "", body |-> [kind |-> "text", text |-> "Internal Server Error"]]

\* What the framework sends when the body does not make a
\* BoardClassificationRequest: 422 and the errors, listed under "detail".
ValidationResponse(errors) ==
    [status_code |-> 422, media_type |-> "application/json", cache_control |-> "",
     body |-> [kind |-> "validation", errors |-> errors]]

\* Response(content=out_png, media_type="image/png", headers={"Cache-Control": "no-store"})
PngResponse(content) ==
    [status_code |-> 200, media_type |-> "image/png", cache_control |-> "no-store",
     body |-> [kind |-> "png", content |-> content]]

\* As WrongContentType, had the source compared without .lower().
WrongContentTypeExact(r) == r.contentType # IMAGE_PNG

WrongContentType(r) == lower(r.contentType) # IMAGE_PNG

\* The transformer of the deployed revision.
ProcessImage(rev, env, image) ==
    IF rev = "backend" THEN _process_image(image) ELSE process_image(image, env)

board_classification(r, rev, env) ==
    IF WrongContentType(r)
    THEN ExceptionResponse(HTTPException(400, "contentType must be image/png"))
    ELSE LET b == _decode_base64(r.imageBase64)
         IN  IF raised(b) THEN ExceptionResponse(b)
             ELSE LET i == _ensure_png(b.value)
                  IN  IF raised(i) THEN ExceptionResponse(i)
                      ELSE LET o == ProcessImage(rev, env, i.value)
                           IN  IF raised(o) THEN ExceptionResponse(o)
                               ELSE PngResponse(o.value)

health ==
    [status_code |-> 200, media_type |-> "application/json", cache_control |-> "",
     body |-> [kind |-> "ok", ok |-> TRUE]]

\* The response of the server to one request served alone: the handler is
\* called only with a body that validates.
Serve(h, rev, env) ==
    IF h.path = "/health" THEN health
    ELSE IF ValidationErrors(h.body) # <<>>
         THEN ValidationResponse(ValidationErrors(h.body))
         ELSE board_classification(BoardClassificationRequest(h.body), rev, env)

----------------------------------------------------------------------------
(* Inputs.                                                                 *)

RECURSIVE b64encode(_)
b64encode(b) ==
    IF b = <<>> THEN <<>>
    ELSE LET c(v) == B64Alphabet[v + 1]
             b1 == b[1]
             b2 == IF Len(b) >= 2 THEN b[2] ELSE 0
             b3 == IF Len(b) >= 3 THEN b[3] ELSE 0
         IN  <<c(b1 \div 4), c((b1 % 4) * 16 + b2 \div 16)>>
             \o (IF Len(b) >= 2 THEN <<c((b2 % 16) * 4 + b3 \div 64)>> ELSE <<"=">>)
             \o (IF Len(b) >= 3 THEN <<c(b3 % 64)>> ELSE <<"=">>)
             \o (IF Len(b) > 3 THEN b64encode(SubSeq(b, 4, Len(b))) ELSE <<>>)

Png(w, h, colour, sample) == PNG_SIGNATURE \o <<w, h, colour, sample>>

DataPrefix ==
    DataScheme \o IMAGE_PNG \o <<";","b","a","s","e","6","4",",">>

Png10 == b64encode(Png(10, 10, 6, 255))
Png3x5 == b64encode(Png(3, 5, 2, 128))

ValidImages == {Png10, Png3x5, DataPrefix \o Png10, <<" ">> \o Png3x5 \o <<"\n">>}

ImagePayloads ==
    ValidImages \cup
    { Png10 \o <<"=">>,                              \* padding after whole quads
      DataPrefix \o <<" ">> \o Png10,                \* a space after the comma
      <<"A","A","A","A">>,                           \* three bytes
      <<"A","A","A","A","=">>,
      <<>>,
      <<"A","!","A","A">>,
      <<"A","A","A">>,
      <<"A">>,
      <<"A","A","=","A">>,
      <<"A","A","A","U+00E9">>,
      <<"A","A","A","A","\f">>,                      \* a form feed to strip
      <<"U+000B","A","A","A","A","U+00A0">>,         \* \x0b and a no-break space to strip
      <<"A","A","U+2028","A","A">>,                  \* a line separator inside
      <<"A","A","\f","A","A">>,                      \* a form feed inside
      <<"D","a","t","a",":","x",",","!">>,
      b64encode(PNG_SIGNATURE),                      \* the signature and nothing else
      b64encode(Png(10, 10, 5, 255)),                \* no such colour type
      b64encode(Png(0, 10, 6, 255)),                 \* no columns
      b64encode(PNG_SIGNATURE \o <<10, 10, 6, 255, 0>>),
      b64encode(<<255, 216, 255, 224, 0, 16, 74, 70, 73, 70, 0, 1>>),   \* a JPEG header
      b64encode(<<137, 80, 78, 71, 13, 10, 26, 11, 10, 10, 6, 255>>),   \* last signature byte off
      b64encode(<<137, 80, 78, 71, 13, 10, 26>>) }   \* seven bytes of the signature

IMAGE_JPEG == <<"i","m","a","g","e","/","j","p","e","g">>

ContentTypes ==
    { Str(IMAGE_PNG),
      Str(<<"I","M","A","G","E","/","P","N","G">>),
      Str(<<"I","m","a","g","e","/","P","n","g">>),
      Missing,
      Str(IMAGE_JPEG),
      Str(<<>>),
      Str(IMAGE_PNG \o <<" ">>),
      Null }

\* Bodies that validate, with and without a filename; bodies that lack
\* imageBase64 or carry one that is no string; a filename that is no
\* string; a body that is no object.
Bodies ==
    { Object(f, t, Str(p)) : f \in {Missing, Str(<<"b",".","p","n","g">>)},
                             t \in ContentTypes, p \in ImagePayloads }
    \cup { Object(Missing, t, i) : t \in ContentTypes, i \in {Missing, Null, Number} }
    \cup { Object(Number, Str(IMAGE_PNG), Str(Png10)),
           Object(Null, Str(IMAGE_PNG), Str(Png10)),
           Array }

EnvUnset == [set |-> FALSE, value |-> <<>>]
EnvUnsetText == [set |-> FALSE, value |-> ""]

Revisions == {"backend", "docs"}

Environs ==
    { [BORDER_SIZE |-> EnvUnset, WATERMARK_TEXT |-> EnvUnsetText],
      [BORDER_SIZE |-> Given(<<"4">>), WATERMARK_TEXT |-> Given("wm")],
      [BORDER_SIZE |-> Given(<<" ","1","6">>), WATERMARK_TEXT |-> Given("")],
      [BORDER_SIZE |-> Given(<<"-","1">>), WATERMARK_TEXT |-> EnvUnsetText],
      [BORDER_SIZE |-> Given(<<"-","8">>), WATERMARK_TEXT |-> EnvUnsetText],
      [BORDER_SIZE |-> Given(<<"a","b","c">>), WATERMARK_TEXT |-> EnvUnsetText],
      [BORDER_SIZE |-> Given(<<"U+00A0","8","\f">>), WATERMARK_TEXT |-> EnvUnsetText],
      [BORDER_SIZE |-> Given(<<"U+001C","1","6">>), WATERMARK_TEXT |-> EnvUnsetText] }

----------------------------------------------------------------------------
(* The server: each connection runs a handler, one statement at a time.    *)

Connections == DOMAIN pc

NotComputed == [exc |-> "not computed"]

\* As StoreLocal, had the source kept the value in a module-level global.
StoreShared(f, c, v) == [x \in DOMAIN f |-> v]

\* An assignment to a local of the handler serving connection c.
StoreLocal(f, c, v) == [f EXCEPT ![c] = v]

Enter(c, stage) == stages' = [stages EXCEPT ![c] = Append(@, stage)]

\* The statement after the one at p, in board_classification.
NextStatement(p) ==
    CASE p = "check" -> "decode"
      [] p = "decode" -> "signature"
      [] p = "signature" -> "load"
      [] p = "load" -> "transform"
      [] p = "transform" -> "encode"
      [] p = "encode" -> "respond"
      [] OTHER -> "done"

Continue(c) == pc' = [pc EXCEPT ![c] = NextStatement(pc[c])]

\* As Fail, had the handler gone on to its next statement after an error.
FailAndContinue(c, e) ==
    /\ resp' = [resp EXCEPT ![c] = ExceptionResponse(e)]
    /\ Continue(c)

\* An exception leaves the handler: the framework answers the connection.
Fail(c, e) ==
    /\ resp' = [resp EXCEPT ![c] = ExceptionResponse(e)]
    /\ pc' = [pc EXCEPT ![c] = "done"]

\* The border and the text _process_image works with, by revision.
BorderOf(rev, env) ==
    IF rev = "backend" THEN Returned(16)
    ELSE int(getenv(env, "BORDER_SIZE", <<"1", "6">>))

TextOf(rev, env) ==
    IF rev = "backend" THEN "boardClassification"
    ELSE getenv(env, "WATERMARK_TEXT", "boardClassification")

\* The route's handler is called with its parameter.
Accept(c, h, r, first) ==
    /\ pc[c] = "idle"
    /\ http' = [http EXCEPT ![c] = h]
    /\ req' = [req EXCEPT ![c] = r]
    /\ pc' = [pc EXCEPT ![c] = first]
    /\ UNCHANGED <<revision, environ, png_bytes, img, out, out_png, resp, stages,
                   decoder_vars>>

\* The body fails validation: 422 is the answer and no handler is called.
Reject(c, h, errors) ==
    /\ pc[c] = "idle"
    /\ http' = [http EXCEPT ![c] = h]
    /\ resp' = [resp EXCEPT ![c] = ValidationResponse(errors)]
    /\ pc' = [pc EXCEPT ![c] = "done"]
    /\ UNCHANGED <<revision, environ, req, png_bytes, img, out, out_png, stages,
                   decoder_vars>>

\* POST /boardClassification arrives with the body: the request class
\* validates it, and board_classification is entered if it passes.
Post(c, body) ==
    IF ValidationErrors(body) # <<>>
    THEN Reject(c, PostBoardClassification(body), ValidationErrors(body))
    ELSE Accept(c, PostBoardClassification(body), BoardClassificationRequest(body),
                "check")

\* POST /boardClassification arrives with any body of the catalogue.
Receive(c) == \E body \in Bodies : Post(c, body)

\* GET /health arrives.
ReceiveHealth(c) == Accept(c, GetHealth, HealthRequest, "health")

CheckContentType(c) ==
    /\ pc[c] = "check"
    /\ Enter(c, "content-type check")
    /\ IF WrongContentType(req[c])
       THEN Fail(c, HTTPException(400, "contentType must be image/png"))
       ELSE /\ Continue(c)
            /\ UNCHANGED resp
    /\ UNCHANGED <<revision, environ, http, req, png_bytes, img, out, out_png, decoder_vars>>

Decode(c) ==
    /\ pc[c] = "decode"
    /\ Enter(c, "Request Decoder")
    /\ LET b == _decode_base64(req[c].imageBase64)
       IN  IF raised(b)
           THEN Fail(c, b) /\ UNCHANGED png_bytes
           ELSE /\ png_bytes' = StoreLocal(png_bytes, c, b.value)
                /\ Continue(c)
                /\ UNCHANGED resp
    /\ UNCHANGED <<revision, environ, http, req, img, out, out_png, decoder_vars>>

CheckSignature(c) ==
    /\ pc[c] = "signature"
    /\ Enter(c, "signature check")
    /\ IF BadSignature(png_bytes[c])
       THEN Fail(c, HTTPException(400, "Uploaded bytes are not a PNG file."))
       ELSE /\ Continue(c)
            /\ UNCHANGED resp
    /\ UNCHANGED <<revision, environ, http, req, png_bytes, img, out, out_png, decoder_vars>>

LoadImage(c) ==
    /\ pc[c] = "load"
    /\ Enter(c, "full decode")
    /\ LET i == PilOpenLoadConvert(png_bytes[c])
       IN  IF raised(i)
           THEN Fail(c, ParseFailure(i)) /\ UNCHANGED img
           ELSE /\ img' = StoreLocal(img, c, i.value)
                /\ Continue(c)
                /\ UNCHANGED resp
    /\ UNCHANGED <<revision, environ, http, req, png_bytes, out, out_png, decoder_vars>>

Transform(c) ==
    /\ pc[c] = "transform"
    /\ Enter(c, "Image Transformer")
    /\ LET border == BorderOf(revision, environ)
           o == IF raised(border) THEN border
                ELSE Compose(img[c], border.value, TextOf(revision, environ))
       IN  IF raised(o)
           THEN Fail(c, o) /\ UNCHANGED out
           ELSE /\ out' = StoreLocal(out, c, o.value)
                /\ Continue(c)
                /\ UNCHANGED resp
    /\ UNCHANGED <<revision, environ, http, req, png_bytes, img, out_png, decoder_vars>>

Encode(c) ==
    /\ pc[c] = "encode"
    /\ Enter(c, "Response Encoder")
    /\ LET f == PilSavePng(out[c])
       IN  IF raised(f)
           THEN Fail(c, f) /\ UNCHANGED out_png
           ELSE /\ out_png' = StoreLocal(out_png, c, f.value)
                /\ Continue(c)
                /\ UNCHANGED resp
    /\ UNCHANGED <<revision, environ, http, req, png_bytes, img, out, decoder_vars>>

Respond(c) ==
    /\ pc[c] = "respond"
    /\ resp' = [resp EXCEPT ![c] = PngResponse(out_png[c])]
    /\ Continue(c)
    /\ UNCHANGED <<revision, environ, http, req, png_bytes, img, out, out_png, stages,
                   decoder_vars>>

Health(c) ==
    /\ pc[c] = "health"
    /\ resp' = [resp EXCEPT ![c] = health]
    /\ Continue(c)
    /\ UNCHANGED <<revision, environ, http, req, png_bytes, img, out, out_png, stages,
                   decoder_vars>>

\* The client has the response; the handler's frame is gone.
Deliver(c) ==
    /\ pc[c] = "done"
    /\ pc' = [pc EXCEPT ![c] = "idle"]
    /\ http' = [http EXCEPT ![c] = NoHttp]
    /\ req' = [req EXCEPT ![c] = NoRequest]
    /\ resp' = [resp EXCEPT ![c] = NoResponse]
    /\ stages' = [stages EXCEPT ![c] = <<>>]
    /\ png_bytes' = [png_bytes EXCEPT ![c] = <<>>]
    /\ img' = [img EXCEPT ![c] = NoImage]
    /\ out' = [out EXCEPT ![c] = NoOutput]
    /\ out_png' = [out_png EXCEPT ![c] = NoFile]
    /\ UNCHANGED <<revision, environ, decoder_vars>>

ServerInit(n, revs, envs) ==
    /\ revision \in revs
    /\ environ \in envs
    /\ http = [c \in 1..n |-> NoHttp]
    /\ req = [c \in 1..n |-> NoRequest]
    /\ pc = [c \in 1..n |-> "idle"]
    /\ png_bytes = [c \in 1..n |-> <<>>]
    /\ img = [c \in 1..n |-> NoImage]
    /\ out = [c \in 1..n |-> NoOutput]
    /\ out_png = [c \in 1..n |-> NoFile]
    /\ resp = [c \in 1..n |-> NoResponse]
    /\ stages = [c \in 1..n |-> <<>>]

DecoderIdle ==
    /\ payload = <<>>
    /\ bare = NotComputed
    /\ prefixed = NotComputed

\* One connection, every body of the catalogue, every configuration.
Init == ServerInit(1, Revisions, Environs) /\ DecoderIdle

Next ==
    \/ \E c \in Connections : Receive(c)
    \/ \E c \in Connections : ReceiveHealth(c)
    \/ \E c \in Connections : CheckContentType(c)
    \/ \E c \in Connections : Decode(c)
    \/ \E c \in Connections : CheckSignature(c)
    \/ \E c \in Connections : LoadImage(c)
    \/ \E c \in Connections : Transform(c)
    \/ \E c \in Connections : Encode(c)
    \/ \E c \in Connections : Respond(c)
    \/ \E c \in Connections : Health(c)
    \/ \E c \in Connections : Deliver(c)

Spec == Init /\ [][Next]_vars

----------------------------------------------------------------------------
(* Concurrent connections, their handlers interleaved statement by         *)
(* statement.                                                              *)

ConcurrentBodies ==
    { Object(Missing, Str(IMAGE_PNG), Str(Png10)),
      Object(Missing, Missing, Str(Png3x5)),
      Object(Missing, Str(IMAGE_JPEG), Str(<<"A","A","A","A">>)),
      Object(Missing, Str(IMAGE_PNG), Str(<<"A","!","A","A">>)),
      Object(Missing, Str(IMAGE_PNG), Str(b64encode(PNG_SIGNATURE))),
      Object(Missing, Str(IMAGE_JPEG), Missing) }

ConcurrentEnvirons ==
    { [BORDER_SIZE |-> EnvUnset, WATERMARK_TEXT |-> EnvUnsetText],
      [BORDER_SIZE |-> Given(<<"4">>), WATERMARK_TEXT |-> Given("wm")] }

ReceiveConcurrent(c) == \E body \in ConcurrentBodies : Post(c, body)

InitConcurrent == ServerInit(MaxRequests, Revisions, ConcurrentEnvirons) /\ DecoderIdle

NextConcurrent ==
    \/ \E c \in Connections : ReceiveConcurrent(c)
    \/ \E c \in Connections : ReceiveHealth(c)
    \/ \E c \in Connections : CheckContentType(c)
    \/ \E c \in Connections : Decode(c)
    \/ \E c \in Connections : CheckSignature(c)
    \/ \E c \in Connections : LoadImage(c)
    \/ \E c \in Connections : Transform(c)
    \/ \E c \in Connections : Encode(c)
    \/ \E c \in Connections : Respond(c)
    \/ \E c \in Connections : Health(c)
    \/ \E c \in Connections : Deliver(c)

SpecConcurrent == InitConcurrent /\ [][NextConcurrent]_vars

----------------------------------------------------------------------------
(* The decoder alone, on every short input.                                *)

BodyAlphabet == {"A", "/", "=", ",", " "}

RECURSIVE Strings(_)
Strings(n) ==
    IF n = 0 THEN {<<>>}
    ELSE LET shorter == Strings(n - 1)
         IN  shorter \cup {Append(s, ch) : s \in {x \in shorter : Len(x) = n - 1},
                                           ch \in BodyAlphabet}

DecoderInputs ==
    { lead \o scheme \o body \o trail :
        lead \in {<<>>, <<" ">>, <<"\f">>},
        scheme \in {<<>>, DataScheme, <<"D","A","T","A",":">>},
        body \in Strings(MaxBody),
        trail \in {<<>>, <<"\n">>, <<"U+00A0">>} }

InitDecoder ==
    /\ ServerInit(0, {"backend"}, {[BORDER_SIZE |-> EnvUnset, WATERMARK_TEXT |-> EnvUnsetText]})
    /\ payload \in DecoderInputs
    /\ bare = NotComputed
    /\ prefixed = NotComputed

DecodeBare ==
    /\ bare = NotComputed
    /\ bare' = _decode_base64(payload)
    /\ UNCHANGED <<server_vars, payload, prefixed>>

DecodePrefixed ==
    /\ prefixed = NotComputed
    /\ prefixed' = _decode_base64(DataPrefix \o payload)
    /\ UNCHANGED <<server_vars, payload, bare>>

NextDecoder == DecodeBare \/ DecodePrefixed

SpecDecoder == InitDecoder /\ [][NextDecoder]_vars

----------------------------------------------------------------------------
(* Properties.                                                             *)

Served(c) == pc[c] = "done"
IsPost(c) == http[c].path = "/boardClassification"
\* The body made a BoardClassificationRequest: board_classification has it.
Validated(c) == IsPost(c) /\ ValidationErrors(http[c].body) = <<>>

\* HTTP 400 with the JSON body {"detail": d}.
ClientError(d) ==
    [status_code |-> 400, media_type |-> "application/json", cache_control |-> "",
     body |-> [kind |-> "detail", detail |-> d]]

\* s and t are equal up to the case of their letters.
EqualIgnoringCase(s, t) ==
    /\ Len(s) = Len(t)
    /\ \A i \in 1..Len(s) :
          \/ s[i] = t[i]
          \/ \E k \in 1..26 : {s[i], t[i]} = {UpperLetters[k], LowerLetters[k]}

StageOrder ==
    <<"content-type check", "Request Decoder", "signature check", "full decode",
      "Image Transformer", "Response Encoder">>

\* 89 50 4E 47 0D 0A 1A 0A
SignatureBytes == <<137, 80, 78, 71, 13, 10, 26, 10>>

LacksSignature(b) ==
    Len(b) < 8 \/ \E i \in 1..8 : b[i] # SignatureBytes[i]

\* Every detail the decoder can give: "Invalid base64: " and the reason.
InvalidBase64Details ==
    {"Invalid base64: " \o m :
        m \in {MsgLeadingPad, MsgExcess, MsgOnly, MsgDiscontinuous, MsgIncorrect,
               MsgNonAscii} \cup {MsgOneMore(4 * k + 1) : k \in 0..16}}

\* RFC 4648: whole quads of alphabet characters, the last one ending in at
\* most two "=".
StrictBase64(s) ==
    /\ Len(s) % 4 = 0
    /\ \A i \in 1..Len(s) :
          \/ s[i] \in Range(B64Alphabet)
          \/ /\ s[i] = "="
             /\ i >= Len(s) - 1
             /\ s[Len(s)] = "="

\* The contentType of the body is something other than "image/png" in some
\* letter case; a body that leaves it out has the default, "image/png".
OtherContentType(body) ==
    CASE body.contentType.type = "string" ->
             ~EqualIgnoringCase(body.contentType.value, IMAGE_PNG)
      [] body.contentType.type = "missing" -> FALSE
      [] OTHER -> TRUE

\* C1 as stated: every POST is answered 400 "contentType must be image/png"
\* exactly when its contentType differs from "image/png" by more than letter
\* case, whatever else its body holds.
C1_Original ==
    \A c \in Connections :
        Served(c) /\ IsPost(c) =>
            ( resp[c] = ClientError("contentType must be image/png")
              <=> OtherContentType(http[c].body) )

\* C1 amended: a POST whose body validates (an object with a string
\* imageBase64, and a contentType and a filename that are strings if given)
\* is answered 400 "contentType must be image/png" exactly when its
\* contentType differs from "image/png" by more than letter case, whatever
\* its imageBase64; a POST whose body does not validate is answered 422.
C1_Amended ==
    \A c \in Connections :
        Served(c) /\ IsPost(c) =>
            IF Validated(c)
            THEN ( resp[c] = ClientError("contentType must be image/png")
                   <=> ~EqualIgnoringCase(req[c].contentType, IMAGE_PNG) )
            ELSE resp[c].status_code = 422

C1_Witness ==
    \E c \in Connections :
        /\ Served(c)
        /\ Validated(c)
        /\ req[c].contentType = IMAGE_JPEG
        /\ req[c].imageBase64 = Png10
        /\ resp[c] = ClientError("contentType must be image/png")

BothDecoded == bare # NotComputed /\ prefixed # NotComputed

\* C2 as stated: "data:image/png;base64," + payload decodes to what payload
\* alone decodes to (the same bytes or the same failure), for every payload.
C2_Original == BothDecoded => bare = prefixed

\* A payload that does not begin with white space (unless it is nothing
\* else) and is not itself a data: header with a comma.
PlainPayload(p) ==
    /\ strip(p) = <<>> \/ p[1] \notin Whitespace
    /\ ~(startswith(lower(strip(p)), DataScheme) /\ contains(p, ","))

\* C2 amended: the prefixed string decodes to what the payload alone decodes
\* to, for every payload without leading white space and without a data:
\* header of its own.
C2_Amended == BothDecoded /\ PlainPayload(payload) => bare = prefixed

C2_Witness ==
    /\ BothDecoded
    /\ payload = <<"A","/","=","=","\n">>
    /\ PlainPayload(payload)
    /\ bare = Returned(<<3>>)
    /\ prefixed = bare

\* C3 as stated: with an accepted contentType, an imageBase64 whose text
\* (data: header removed) is not strict base64 is answered 400
\* "Invalid base64: ..." and no image stage is entered.
C3_Original ==
    \A c \in Connections :
        /\ Served(c) /\ Validated(c)
        /\ EqualIgnoringCase(req[c].contentType, IMAGE_PNG)
        /\ ~StrictBase64(DecoderRaw(req[c].imageBase64))
        => /\ resp[c].status_code = 400
           /\ resp[c].body.kind = "detail"
           /\ resp[c].body.detail \in InvalidBase64Details
           /\ stages[c] = SubSeq(StageOrder, 1, 2)

\* C4: decoded bytes shorter than 8 or not starting with the PNG signature
\* are answered 400 "Uploaded bytes are not a PNG file." and the full decode
\* is not entered.
C4_Signature ==
    \A c \in Connections :
        Len(stages[c]) >= 3 /\ LacksSignature(png_bytes[c]) =>
            /\ resp[c] = ClientError("Uploaded bytes are not a PNG file.")
            /\ stages[c] = SubSeq(StageOrder, 1, 3)

C4_Witness ==
    \E c \in Connections :
        /\ Served(c)
        /\ png_bytes[c] = <<137, 80, 78, 71, 13, 10, 26, 11, 10, 10, 6, 255>>
        /\ resp[c] = ClientError("Uploaded bytes are not a PNG file.")
        /\ stages[c] = SubSeq(StageOrder, 1, 3)

\* C5: bytes that carry the signature and fail to open, load or convert are
\* answered 400 with the fixed detail "Could not parse PNG image.", never a
\* server error and never the library's own message.
C5_Unparseable ==
    \A c \in Connections :
        Len(stages[c]) >= 4 /\ img[c] = NoImage =>
            /\ ~LacksSignature(png_bytes[c])
            /\ resp[c] = ClientError("Could not parse PNG image.")
            /\ stages[c] = SubSeq(StageOrder, 1, 4)

C5_Witness ==
    \E c \in Connections :
        /\ Served(c)
        /\ png_bytes[c] = SignatureBytes \o <<10, 10, 5, 255>>
        /\ img[c] = NoImage
        /\ resp[c] = ClientError("Could not parse PNG image.")

\* The border each configuration that can give an image asks for, written
\* out by hand: 16 where the revision has no setting or BORDER_SIZE is
\* unset, and the number BORDER_SIZE spells otherwise.
ConfiguredBorder ==
    IF revision = "backend" \/ ~environ.BORDER_SIZE.set THEN 16
    ELSE CASE environ.BORDER_SIZE.value = <<"4">> -> 4
           [] environ.BORDER_SIZE.value = <<" ","1","6">> -> 16
           [] environ.BORDER_SIZE.value = <<"U+00A0","8","\f">> -> 8
           [] environ.BORDER_SIZE.value = <<"-","1">> -> 0 - 1

\* C6: the PNG of a 200 response is (w + 2*border) by (h + 2*border) for the
\* w by h input and the border in force; 42 by 42 for 10 by 10 and border 16.
C6_Dimensions ==
    \A c \in Connections :
        Served(c) /\ IsPost(c) /\ resp[c].status_code = 200 =>
            LET w == png_bytes[c][9]
                h == png_bytes[c][10]
                size == resp[c].body.content.image.size
            IN  /\ size = <<w + 2 * ConfiguredBorder, h + 2 * ConfiguredBorder>>
                /\ (w = 10 /\ h = 10 /\ ConfiguredBorder = 16 => size = <<42, 42>>)

C6_Witness ==
    \E c \in Connections :
        /\ Served(c)
        /\ resp[c].status_code = 200
        /\ png_bytes[c] = SignatureBytes \o <<10, 10, 6, 255>>
        /\ ConfiguredBorder = 16
        /\ resp[c].body.content.image.size = <<42, 42>>

FullSuccess(c) ==
    /\ resp[c].status_code = 200
    /\ resp[c].media_type = "image/png"
    /\ resp[c].cache_control = "no-store"
    /\ resp[c].body.kind = "png"
    /\ resp[c].body.content.format = "PNG"
    /\ stages[c] = StageOrder

\* JSON with a "detail": the message of an HTTPException, or the list of
\* validation errors.
StructuredError(c) ==
    /\ resp[c].status_code # 200
    /\ resp[c].media_type = "application/json"
    /\ resp[c].body.kind \in {"detail", "validation"}

\* C7 as stated: every POST ends either in a 200 with the whole PNG, media
\* type image/png and Cache-Control: no-store, all stages done, or in a
\* structured error with a detail message and no image.
C7_Original ==
    \A c \in Connections :
        Served(c) /\ IsPost(c) => FullSuccess(c) \/ StructuredError(c)

\* The stage whose outcome a response is.
StageOfResponse(r) ==
    IF r.status_code = 200 THEN {6}
    ELSE IF r.status_code = 500 THEN {5, 6}
    ELSE IF r.status_code = 422 THEN {0}
    ELSE IF r = ClientError("contentType must be image/png") THEN {1}
    ELSE IF r.body.detail \in InvalidBase64Details THEN {2}
    ELSE IF r = ClientError("Uploaded bytes are not a PNG file.") THEN {3}
    ELSE IF r = ClientError("Could not parse PNG image.") THEN {4}
    ELSE {}

\* C8: the stages of a request are entered in the order content-type check,
\* decoder, signature check, full decode, transformer, encoder, each only
\* after the ones before it succeeded; the stage that fails answers the
\* request and none is entered after it. None is entered at all for a body
\* that does not validate.
C8_Order ==
    \A c \in Connections :
        LET n == Len(stages[c])
        IN  /\ n <= 6 /\ stages[c] = SubSeq(StageOrder, 1, n)
            /\ n >= 1 => Validated(c)
            /\ n >= 2 => EqualIgnoringCase(req[c].contentType, IMAGE_PNG)
            /\ n >= 3 => Returned(png_bytes[c]) = _decode_base64(req[c].imageBase64)
            /\ n >= 4 => ~LacksSignature(png_bytes[c])
            /\ n >= 5 => img[c] # NoImage
            /\ n >= 6 => out[c] # NoOutput
            /\ IsPost(c) /\ resp[c] # NoResponse => n \in StageOfResponse(resp[c])

C8_Witness ==
    \E c \in Connections :
        /\ Served(c)
        /\ stages[c] = SubSeq(StageOrder, 1, 2)
        /\ resp[c] = ClientError("Invalid base64: " \o MsgOnly)

\* C9: whatever the interleaving, a connection is answered as if its request
\* were the only one the process ever served, and GET /health is answered
\* 200 {"ok": true}.
C9_Independent ==
    \A c \in Connections :
        Served(c) =>
            /\ resp[c] = Serve(http[c], revision, environ)
            /\ http[c] = GetHealth =>
                   /\ resp[c].status_code = 200
                   /\ resp[c].body = [kind |-> "ok", ok |-> TRUE]

C9_Witness ==
    \E c \in Connections, d \in Connections :
        /\ c # d
        /\ Served(c) /\ req[c].imageBase64 = Png10 /\ resp[c].status_code = 200
        /\ pc[d] = "load" /\ req[d].imageBase64 = Png3x5

\* C10 as stated: the transformer's output depends on the pixel buffer (and
\* on nothing it is not passed): under any other environment the same
\* buffer gives the same output.
C10_Original ==
    \A c \in Connections :
        pc[c] \in {"respond", "done"} /\ out_png[c] # NoFile =>
            \A e \in Environs :
                ProcessImage(revision, e, img[c]) = Returned(out_png[c])

====
